---- MODULE Spec2Model ----
(***************************************************************************)
(* State-machine model of hardhat/contracts/TokenFactory.sol and           *)
(* hardhat/contracts/Token.sol.                                            *)
(*                                                                         *)
(* Every external call of the factory is one action.  A call that reverts  *)
(* leaves the contract state as it was and is recorded in lastCall, so     *)
(* that the rejection itself can be observed.                              *)
(*                                                                         *)
(* Amounts.  Solidity writes both ETH amounts and token amounts with the   *)
(* unit "ether" (10^18).  The two are different dimensions that the code   *)
(* never adds to each other, and 10^18 does not fit TLC's integers, so     *)
(* each dimension has its own, smaller scale here: ETH is counted in units *)
(* of 1/Ether ether and tokens in units of 1/UNIT token.  Every constant   *)
(* of the contract keeps its value in ether resp. tokens.  No amount the   *)
(* model reaches comes near 2^256 in wei (sold stays below TOTAL_SUPPLY,   *)
(* payments are a few ether), so checked arithmetic is not modelled.       *)
(*                                                                         *)
(* The externally owned accounts are the three signers of the tests; they  *)
(* accept every ETH transfer.  One more account is a contract without a    *)
(* payable receive or fallback function: every ETH transfer to it fails.   *)
(* Another is a contract whose receive function calls deposit again before *)
(* it returns; the transaction that runs the outer call and the nested     *)
(* ones is one action.                                                     *)
(***************************************************************************)
EXTENDS Integers, Sequences, FiniteSets, TLC

\* -------------------------------------------------------------------------
\* Scales
\* -------------------------------------------------------------------------
\* sub-units of one token (Solidity: 10 ** 18)
UNIT == 2
\* sub-units of one ether of ETH (Solidity: 1 ether)
Ether == 1000000

\* -------------------------------------------------------------------------
\* Constants of TokenFactory
\* -------------------------------------------------------------------------
TARGET == 3 * Ether
TOKEN_LIMIT == 500000 * UNIT
TOTAL_SUPPLY == 1000000 * UNIT
MIN_PURCHASE == 1 * UNIT
MAX_PURCHASE == 10000 * UNIT
\* the constructor argument used by the deployment module and the tests
FEE == Ether \div 100

\* -------------------------------------------------------------------------
\* Bounds of the model
\* -------------------------------------------------------------------------
\* number of tokens that can be created
MaxTokens == 1
\* number of tokens that can be created where create is studied on its own
MaxCreated == MaxTokens + 1
\* number of purchases accepted from open sales
MaxBuys == 2
\* number of token transfers made by holders themselves
MaxTransfers == 1
\* number of successful withdraw calls
MaxWithdraws == 1
\* getCostPerToken is queried for sold counts up to MaxSteps increments
MaxSteps == 100
\* number of nested deposit calls a receive function makes
MaxReentries == 2
\* number of purchases accepted where one sale is followed to its closure
MaxSaleBuys == 40000

\* -------------------------------------------------------------------------
\* Addresses
\* -------------------------------------------------------------------------
Users == {"deployer", "creator", "buyer"}
Factory == "factory"
ZeroAddress == "0x0"
\* a contract that can call the factory and hold tokens but rejects ETH
Rejector == "rejector"
\* a contract whose receive function re-enters the factory
Attacker == "attacker"
Accounts == Users \cup {Rejector, Attacker}
Holders == Accounts \cup {Factory}
\* the address of the k-th created Token contract is k; NoToken is an
\* address that holds no Token contract (address(0) in a default record)
NoToken == 0
TokenIds == 1..MaxCreated
TokenArgs == {NoToken} \cup TokenIds
\* the token addresses passed to buy, deposit and transfer where at most
\* MaxTokens tokens are created
SaleIds == 1..MaxTokens
SaleArgs == {NoToken} \cup SaleIds
Names == {"MOONLIGHT APP"}

\* -------------------------------------------------------------------------
\* Inputs
\* -------------------------------------------------------------------------
\* the callers of each operation: the signers of the tests in their roles,
\* and for every check on msg.sender a caller on either side of it
Creators == {"creator"}
Buyers == {"buyer"}
Depositors == {"creator", "buyer"}
Withdrawers == {"deployer", "buyer"}
Senders == {"buyer"}
Receivers == {Factory, "creator"}
CreateValues == {FEE - 1, FEE}
BuyAmounts == {MIN_PURCHASE - 1, MIN_PURCHASE, MIN_PURCHASE + 1,
               MAX_PURCHASE, MAX_PURCHASE + 1}
\* the payments tried for a purchase that costs price: one unit short, exact
\* (what the client sends), and a large excess
BuyValues(price) == {v \in {price - 1, price, price + 3 * Ether} : v >= 0}
WithdrawAmounts == {FEE, 3 * Ether}
TransferAmounts == {MIN_PURCHASE}
\* sold counts at, next to and between the multiples of the increment
\* the inputs of create where it is studied on its own: two callers, two
\* names, and payments below, at and above the fee
\* the inputs where custody is studied: the creator buys its own token too,
\* and holders send units to the factory and to each other
CustodyBuyers == {"buyer", "creator"}
CustodyAmounts == {MIN_PURCHASE, MAX_PURCHASE}
CustodyReceivers == {Factory, "creator", "buyer"}
\* the inputs of the queries: an account with a role in the factory and one
\* without, every index up to one past the longest list, and the sold
\* counts of a sale around the first price step
QueryCallers == {"deployer", Attacker}
QueryIndexes == 0..MaxCreated
PublicVariables == {"totalTokens", "fee", "owner"}
QuerySold == {0, MAX_PURCHASE}
\* the constructor arguments where deployment is studied
FeeArgs == {0, FEE, FEE + 1}
\* the creators where settlement is studied on its own
SettleCreators == {"creator", Rejector}
AnyCreators == {"creator", "buyer"}
AnyNames == {"MOONLIGHT APP", "SUN"}
AnyCreateValues == {FEE - 1, FEE, FEE + 1}
\* the quantities bought where one sale is followed to its closure: the
\* largest one, and the one that takes the most units for the price of one
SaleAmounts == {MIN_PURCHASE + (UNIT - 1), MAX_PURCHASE}
\* the quantities bought where the length of a sale is studied: the largest
\* one, and the one that raises the least
LiveAmounts == {MIN_PURCHASE, MAX_PURCHASE}
\* the quantities entered in the trade dialog, and the purchases that other
\* buyers make while it is open
DialogAmounts == {MIN_PURCHASE, MIN_PURCHASE + 1, MAX_PURCHASE}
OtherBuyers == {"creator"}
OtherAmounts == {MIN_PURCHASE, MIN_PURCHASE + 1, MAX_PURCHASE}
SoldInputs ==
    {q * (10000 * UNIT) + r : q \in 0..MaxSteps,
        r \in {0, 1, UNIT, 5000 * UNIT, 10000 * UNIT - UNIT, 10000 * UNIT - 1}}

VARIABLES
    fee,            \* TokenFactory.fee
    owner,          \* TokenFactory.owner
    totalTokens,    \* TokenFactory.totalTokens
    tokenAddresses, \* TokenFactory.tokenAddresses
    tokenToSale,    \* TokenFactory.tokenToSale
    balance,        \* address(factory).balance
    tokens,         \* the deployed Token contracts, by address
    feesCollected,  \* history: sum of msg.value over successful create calls
    buyPayments,    \* history: sum of msg.value over successful buy calls
    withdrawn,      \* history: sum of the amounts of successful withdraw calls
    paidOut,        \* history: per token, ETH sent to the creator by deposit
    settled,        \* history: per token, whether a deposit has succeeded
    buys,           \* history: number of successful buy calls
    transfers,      \* history: number of holder transfers
    withdraws,      \* history: number of successful withdraw calls
    received,       \* history: per account, ETH received from the factory
    bought,         \* history: per token and account, units bought
    sentTo,         \* history: per token and holder, units that transfers
                    \* made by holders themselves have sent to the holder
    tokenData,      \* the client: the token of the trade dialog with the
                    \* sold count that the page has read
    lastCall        \* the last external call and its outcome

vars == <<fee, owner, totalTokens, tokenAddresses, tokenToSale, balance,
          tokens, feesCollected, buyPayments, withdrawn, paidOut, settled,
          buys, transfers, withdraws, received, bought, sentTo, tokenData,
          lastCall>>

\* the state of the two contracts
contractState == <<fee, owner, totalTokens, tokenAddresses, tokenToSale,
                   balance, tokens>>
history == <<feesCollected, buyPayments, withdrawn, paidOut, settled, buys,
             transfers, withdraws, received, bought, sentTo>>

\* -------------------------------------------------------------------------
\* Helpers
\* -------------------------------------------------------------------------
RECURSIVE SumOver(_, _)
SumOver(f, S) ==
    IF S = {} THEN 0
    ELSE LET x == CHOOSE y \in S : TRUE IN f[x] + SumOver(f, S \ {x})

\* the default value of a TokenSale read from the mapping
DefaultSale ==
    [token |-> NoToken, name |-> "", creator |-> ZeroAddress,
     sold |-> 0, raised |-> 0, isOpen |-> FALSE]

\* of a call that reverts, the operation and the revert reason are recorded
Reverted(op, reason) ==
    [op |-> op, caller |-> ZeroAddress, token |-> NoToken, amount |-> 0,
     value |-> 0, ok |-> FALSE, reason |-> reason, result |-> <<>>]

Succeeded(op, caller, token, amount, value) ==
    [op |-> op, caller |-> caller, token |-> token, amount |-> amount,
     value |-> value, ok |-> TRUE, reason |-> "", result |-> <<>>]

\* of a view call, the arguments and the value it returns are recorded
Returned(op, caller, token, amount, result) ==
    [op |-> op, caller |-> caller, token |-> token, amount |-> amount,
     value |-> 0, ok |-> TRUE, reason |-> "", result |-> <<result>>]

\* a call that reverts: nothing but the record of the call changes
Revert(op, reason) ==
    /\ lastCall' = Reverted(op, reason)
    /\ UNCHANGED contractState
    /\ UNCHANGED tokenData
    /\ UNCHANGED history

\* -------------------------------------------------------------------------
\* Token (ERC20)
\* -------------------------------------------------------------------------
\* variant: the supply is minted to the creator
NewTokenToCreator(sender, _creator, _name, _totalSupply) ==
    [owner |-> sender, creator |-> _creator, name |-> _name,
     totalSupply |-> _totalSupply,
     balanceOf |-> [h \in Holders |-> IF h = _creator THEN _totalSupply ELSE 0]]

\* Token.constructor as called by the factory: owner = msg.sender,
\* creator = _creator, the whole supply minted to msg.sender
NewToken(sender, _creator, _name, _totalSupply) ==
    [owner |-> sender, creator |-> _creator, name |-> _name,
     totalSupply |-> _totalSupply,
     balanceOf |-> [h \in Holders |-> IF h = sender THEN _totalSupply ELSE 0]]

\* ERC20.transfer succeeds iff the sender holds the value and the receiver
\* is not address(0)
CanTransfer(tok, from, to, value) ==
    /\ to # ZeroAddress
    /\ tok.balanceOf[from] >= value

\* variant: the receiver is credited and the sender is not debited
TransferTokenNoDebit(tok, from, to, value) ==
    IF from = to THEN tok
    ELSE [tok EXCEPT !.balanceOf[to] = @ + value]

\* the token after ERC20.transfer(to, value) called by from
TransferToken(tok, from, to, value) ==
    IF from = to THEN tok
    ELSE [tok EXCEPT !.balanceOf[from] = @ - value,
                     !.balanceOf[to] = @ + value]

\* -------------------------------------------------------------------------
\* TokenFactory
\* -------------------------------------------------------------------------
\* variant: the division rounds up
getCostPerTokenCeil(_sold) ==
    LET floor == Ether \div 10000
        step == Ether \div 10000
        increment == 10000 * UNIT
    IN (step * ((_sold + increment - 1) \div increment)) + floor

\* variant: the curve starts at zero
getCostPerTokenNoFloor(_sold) ==
    LET step == Ether \div 10000
        increment == 10000 * UNIT
    IN step * (_sold \div increment)

getCostPerToken(_sold) ==
    LET floor == Ether \div 10000
        step == Ether \div 10000
        increment == 10000 * UNIT
    IN (step * (_sold \div increment)) + floor

\* variant: the batch is priced at the sold count after the purchase
TotalPriceAfter(sale, _amount) ==
    getCostPerToken(sale.sold + _amount) * (_amount \div UNIT)

\* variant: the fraction of a unit is charged too
TotalPriceExact(sale, _amount) ==
    (getCostPerToken(sale.sold) * _amount) \div UNIT

\* totalPrice of buy
TotalPrice(sale, _amount) == getCostPerToken(sale.sold) * (_amount \div UNIT)

\* variant: the target has to be exceeded
ReachedThresholdStrict(sold, raised) == sold > TOKEN_LIMIT \/ raised > TARGET

\* variant: the token limit is that of one purchase
ReachedThresholdPurchase(sold, raised) ==
    sold >= MAX_PURCHASE \/ raised >= TARGET

\* the closing condition of buy, on the updated record
ReachedThreshold(sold, raised) == sold >= TOKEN_LIMIT \/ raised >= TARGET

\* variant: the quantity is checked before the sale
BuyRejectionAmountFirst(sale, _amount, value) ==
    IF ~(_amount >= MIN_PURCHASE) THEN "Factory: Amount too low"
    ELSE IF ~(_amount <= MAX_PURCHASE) THEN "Factory: Amount exceeded"
    ELSE IF ~(sale.isOpen = TRUE) THEN "Factory: Buying closed"
    ELSE IF ~(value >= getCostPerToken(sale.sold) * (_amount \div UNIT))
         THEN "Factory: Insufficient ETH received"
    ELSE ""

\* variant: the sale is not required to be open
BuyRejectionAnySale(sale, _amount, value) ==
    IF ~(_amount >= MIN_PURCHASE) THEN "Factory: Amount too low"
    ELSE IF ~(_amount <= MAX_PURCHASE) THEN "Factory: Amount exceeded"
    ELSE IF ~(value >= getCostPerToken(sale.sold) * (_amount \div UNIT))
         THEN "Factory: Insufficient ETH received"
    ELSE ""

\* variant: the upper bound of the quantity is not checked
BuyRejectionNoMax(sale, _amount, value) ==
    IF ~(sale.isOpen = TRUE) THEN "Factory: Buying closed"
    ELSE IF ~(_amount >= MIN_PURCHASE) THEN "Factory: Amount too low"
    ELSE IF ~(value >= getCostPerToken(sale.sold) * (_amount \div UNIT))
         THEN "Factory: Insufficient ETH received"
    ELSE ""

\* the reason for which buy reverts before it changes anything, "" if none
BuyRejection(sale, _amount, value) ==
    IF ~(sale.isOpen = TRUE) THEN "Factory: Buying closed"
    ELSE IF ~(_amount >= MIN_PURCHASE) THEN "Factory: Amount too low"
    ELSE IF ~(_amount <= MAX_PURCHASE) THEN "Factory: Amount exceeded"
    ELSE IF ~(value >= TotalPrice(sale, _amount))
         THEN "Factory: Insufficient ETH received"
    ELSE ""

\* variant: the excess over the amount due is sent back
RetainedPrice(value, totalPrice) == totalPrice

\* what the factory keeps of the payment attached to a payable call (buy,
\* where totalPrice is due, and create, where fee is due): all of it
Retained(value, totalPrice) == value

\* the sale record as buy leaves it
SaleAfterBuy(sale, _amount) ==
    LET sold == sale.sold + _amount
        raised == sale.raised + TotalPrice(sale, _amount)
    IN [sale EXCEPT !.sold = sold,
                    !.raised = raised,
                    !.isOpen = IF ReachedThreshold(sold, raised)
                               THEN FALSE ELSE @]

\* variant: the owner is left unset
ConstructorOwnerless(sender, _fee) ==
    /\ fee = _fee
    /\ owner = ZeroAddress

\* constructor(_fee) with msg.sender = sender
Constructor(sender, _fee) ==
    /\ fee = _fee
    /\ owner = sender

\* the state after the deployment of the factory by sender with _fee
InitWith(sender, _fee) ==
    /\ Constructor(sender, _fee)
    /\ totalTokens = 0
    /\ tokenAddresses = <<>>
    /\ tokenToSale = [t \in TokenArgs |-> DefaultSale]
    /\ balance = 0
    /\ tokens = <<>>
    /\ feesCollected = 0
    /\ buyPayments = 0
    /\ withdrawn = 0
    /\ paidOut = [t \in TokenIds |-> 0]
    /\ settled = [t \in TokenIds |-> FALSE]
    /\ buys = 0
    /\ transfers = 0
    /\ withdraws = 0
    /\ received = [a \in Accounts |-> 0]
    /\ bought = [t \in TokenIds |-> [a \in Accounts |-> 0]]
    /\ sentTo = [t \in TokenIds |-> [h \in Holders |-> 0]]
    /\ tokenData = [token |-> NoToken, sold |-> 0]
    /\ lastCall = Succeeded("constructor", sender, NoToken, _fee, 0)

\* the deployment of the tests and of the deployment module
Init == InitWith("deployer", FEE)

\* a deployment by any of the accounts with a fee below, at or above the
\* payment attached to create
InitDeploy == \E sender \in Users, _fee \in FeeArgs : InitWith(sender, _fee)

\* variant: the payment must exceed the fee
CreateRejectionStrict(value) ==
    IF ~(value > fee) THEN "Factory: Creator fee not met" ELSE ""

\* the require of create: the reason it fails with, "" if it passes
CreateRejection(value) ==
    IF ~(value >= fee) THEN "Factory: Creator fee not met" ELSE ""

\* variant: the token's owner is recorded as the creator of the sale
NewSaleOfOwner(token, _name, sender) ==
    [token |-> token, name |-> _name, creator |-> Factory,
     sold |-> 0, raised |-> 0, isOpen |-> TRUE]

\* variant: the record does not carry the address of its token
NewSaleNoToken(token, _name, sender) ==
    [token |-> NoToken, name |-> _name, creator |-> sender,
     sold |-> 0, raised |-> 0, isOpen |-> TRUE]

\* TokenSale(address(token), _name, msg.sender, 0, 0, true)
NewSale(token, _name, sender) ==
    [token |-> token, name |-> _name, creator |-> sender,
     sold |-> 0, raised |-> 0, isOpen |-> TRUE]

\* create(_name, _symbol) with msg.sender = caller and msg.value = value
Create(caller, _name, value) ==
    IF CreateRejection(value) # ""
    THEN Revert("create", CreateRejection(value))
    ELSE LET token == Len(tokens) + 1 IN
         /\ tokens' = Append(tokens,
                             NewToken(Factory, caller, _name, TOTAL_SUPPLY))
         /\ tokenAddresses' = Append(tokenAddresses, token)
         /\ totalTokens' = totalTokens + 1
         /\ tokenToSale' = [tokenToSale EXCEPT ![token] =
                                NewSale(token, _name, caller)]
         /\ balance' = balance + Retained(value, fee)
         /\ feesCollected' = feesCollected + value
         /\ lastCall' = Succeeded("create", caller, token, 0, value)
         /\ UNCHANGED tokenData
         /\ UNCHANGED <<fee, owner, buyPayments, withdrawn, paidOut,
                        settled, buys, transfers, withdraws, received,
                        bought, sentTo>>

\* buy(_token, _amount) with msg.sender = caller and msg.value = value, as
\* long as fewer than limit purchases have been accepted
BuyUpTo(limit, caller, _token, _amount, value) ==
    LET sale == tokenToSale[_token]
        reason == BuyRejection(sale, _amount, value)
    IN
    IF reason # ""
    THEN Revert("buy", reason)
    ELSE IF _token \notin 1..Len(tokens)
    THEN \* transfer is called on an address without code
         Revert("buy", "call to non-contract")
    ELSE IF ~CanTransfer(tokens[_token], Factory, caller, _amount)
    THEN Revert("buy", "ERC20: insufficient balance")
    ELSE \* limit bounds the purchases from open sales, the only ones the
         \* require above lets through
         /\ sale.isOpen => buys < limit
         /\ tokenToSale' = [tokenToSale EXCEPT
                               ![_token] = SaleAfterBuy(sale, _amount)]
         /\ tokens' = [tokens EXCEPT ![_token] =
                          TransferToken(@, Factory, caller, _amount)]
         /\ balance' = balance + Retained(value, TotalPrice(sale, _amount))
         /\ buyPayments' = buyPayments + value
         /\ buys' = buys + 1
         /\ bought' = [bought EXCEPT ![_token][caller] = @ + _amount]
         /\ lastCall' = Succeeded("buy", caller, _token, _amount, value)
         /\ UNCHANGED tokenData
         /\ UNCHANGED <<fee, owner, totalTokens, tokenAddresses,
                        feesCollected, withdrawn, paidOut, settled,
                        transfers, withdraws, received, sentTo>>

\* buy(_token, _amount) with msg.sender = caller and msg.value = value
Buy(caller, _token, _amount, value) ==
    BuyUpTo(MaxBuys, caller, _token, _amount, value)

\* variant: the factory must hold more than the value
SendSucceedsBelow(to, value) == balance > value /\ to # Rejector

\* the native-currency call to.call{value: value}("") succeeds iff the
\* factory holds the value and the receiver accepts it
SendSucceeds(to, value) == balance >= value /\ to # Rejector

\* variant: the result of the call is ignored
SendUnchecked(success) == TRUE

\* require(success, "Factory: ETH transfer failed")
SendChecked(success) == success

\* variant: the paid-out amount is cleared in the record
SaleAfterDepositCleared(sale) == [sale EXCEPT !.raised = 0]

\* deposit works on a memory copy of the record and writes nothing back
SaleAfterDeposit(sale) == sale

\* variant: the sale need not be closed
DepositRejectionNone(sale) == ""

\* the require of deposit on the record: the reason it fails with, "" if it
\* passes
DepositRejection(sale) ==
    IF ~(sale.isOpen = FALSE) THEN "Factory: Target not reached" ELSE ""

\* deposit(_token) with msg.sender = caller
Deposit(caller, _token) ==
    LET sale == tokenToSale[_token] IN
    IF DepositRejection(sale) # ""
    THEN Revert("deposit", DepositRejection(sale))
    ELSE IF _token \notin 1..Len(tokens)
    THEN \* balanceOf is called on an address without code
         Revert("deposit", "call to non-contract")
    ELSE LET tok == tokens[_token]
             remaining == tok.balanceOf[Factory]
         IN
         IF ~CanTransfer(tok, Factory, sale.creator, remaining)
         THEN Revert("deposit", "ERC20: transfer failed")
         ELSE LET success == SendSucceeds(sale.creator, sale.raised)
                  \* a call that fails moves no value
                  sent == IF success THEN sale.raised ELSE 0
              IN
              IF ~SendChecked(success)
              THEN Revert("deposit", "Factory: ETH transfer failed")
              ELSE
              /\ tokens' = [tokens EXCEPT ![_token] =
                     TransferToken(@, Factory, sale.creator, remaining)]
              /\ balance' = balance - sent
              /\ paidOut' = [paidOut EXCEPT ![_token] = @ + sent]
              /\ settled' = [settled EXCEPT ![_token] = TRUE]
              /\ received' = [received EXCEPT ![sale.creator] = @ + sent]
              /\ lastCall' = Succeeded("deposit", caller, _token, remaining,
                                       sent)
              /\ tokenToSale' = [tokenToSale EXCEPT
                                    ![_token] = SaleAfterDeposit(sale)]
              /\ UNCHANGED tokenData
              /\ UNCHANGED <<fee, owner, totalTokens, tokenAddresses,
                             feesCollected, buyPayments, withdrawn, buys,
                             transfers, withdraws, bought, sentTo>>

\* the ETH that a deposit frame sends out in all when it finds bal in the
\* factory and the receive function of the creator calls deposit on the same
\* sale again, n levels deep: a frame whose send fails reverts alone (the
\* receive function ignores the failure of its call), and no frame writes
\* the record, so each nested frame reads the same raised
RECURSIVE ReenteredPayout(_, _, _)
ReenteredPayout(bal, raised, n) ==
    IF bal < raised THEN 0
    ELSE raised + (IF n = 0 THEN 0
                   ELSE ReenteredPayout(bal - raised, raised, n - 1))

\* deposit(_token) with msg.sender = caller on a sale whose creator is the
\* re-entering contract; the nested frames find no tokens left to transfer
DepositReentered(caller, _token, n) ==
    LET sale == tokenToSale[_token] IN
    /\ sale.creator = Attacker
    /\ IF DepositRejection(sale) # ""
       THEN Revert("deposit", DepositRejection(sale))
       ELSE LET tok == tokens[_token]
                remaining == tok.balanceOf[Factory]
                success == SendSucceeds(sale.creator, sale.raised)
                sent == IF success
                        THEN ReenteredPayout(balance, sale.raised, n)
                        ELSE 0
            IN
            IF ~CanTransfer(tok, Factory, sale.creator, remaining)
            THEN Revert("deposit", "ERC20: transfer failed")
            ELSE IF ~SendChecked(success)
            THEN Revert("deposit", "Factory: ETH transfer failed")
            ELSE
            /\ tokens' = [tokens EXCEPT ![_token] =
                   TransferToken(@, Factory, sale.creator, remaining)]
            /\ balance' = balance - sent
            /\ paidOut' = [paidOut EXCEPT ![_token] = @ + sent]
            /\ settled' = [settled EXCEPT ![_token] = TRUE]
            /\ received' = [received EXCEPT ![sale.creator] = @ + sent]
            /\ lastCall' = Succeeded("deposit", caller, _token, remaining,
                                     sent)
            /\ tokenToSale' = [tokenToSale EXCEPT
                                  ![_token] = SaleAfterDeposit(sale)]
            /\ UNCHANGED tokenData
            /\ UNCHANGED <<fee, owner, totalTokens, tokenAddresses,
                           feesCollected, buyPayments, withdrawn, buys,
                           transfers, withdraws, bought, sentTo>>

\* variant: any caller may withdraw
WithdrawRejectionNone(caller) == ""

\* the require of withdraw on the caller: the reason it fails with, "" if it
\* passes
WithdrawRejection(caller) ==
    IF ~(caller = owner) THEN "Factory: Not owner" ELSE ""

\* withdraw(_amount) with msg.sender = caller
Withdraw(caller, _amount) ==
    IF WithdrawRejection(caller) # ""
    THEN Revert("withdraw", WithdrawRejection(caller))
    ELSE LET success == SendSucceeds(owner, _amount)
             \* a call that fails moves no value
             sent == IF success THEN _amount ELSE 0
         IN
         IF ~SendChecked(success)
         THEN Revert("withdraw", "Factory: ETH transfer failed")
         ELSE
         /\ withdraws < MaxWithdraws
         /\ balance' = balance - sent
         /\ withdrawn' = withdrawn + sent
         /\ withdraws' = withdraws + 1
         /\ received' = [received EXCEPT ![owner] = @ + sent]
         /\ lastCall' = Succeeded("withdraw", caller, NoToken, _amount, 0)
         /\ UNCHANGED tokenData
         /\ UNCHANGED <<fee, owner, totalTokens, tokenAddresses, tokenToSale,
                        tokens, feesCollected, buyPayments, paidOut, settled,
                        buys, transfers, bought, sentTo>>

\* Token(_token).transfer(to, value) called by a holder
Transfer(caller, _token, to, value) ==
    /\ _token \in 1..Len(tokens)
    /\ transfers < MaxTransfers
    /\ CanTransfer(tokens[_token], caller, to, value)
    /\ tokens' = [tokens EXCEPT ![_token] =
                     TransferToken(@, caller, to, value)]
    /\ transfers' = transfers + 1
    /\ sentTo' = [sentTo EXCEPT ![_token][to] = @ + value]
    /\ lastCall' = Succeeded("transfer", caller, _token, value, 0)
    /\ UNCHANGED tokenData
    /\ UNCHANGED <<fee, owner, totalTokens, tokenAddresses, tokenToSale,
                   balance, feesCollected, buyPayments, withdrawn, paidOut,
                   settled, buys, withdraws, received, bought>>

\* variant: the index is ignored and the last record is returned
getTokenSaleLast(_index) == tokenToSale[tokenAddresses[Len(tokenAddresses)]]

\* getTokenSale(_index), for an index within tokenAddresses (counted from 0)
getTokenSale(_index) == tokenToSale[tokenAddresses[_index + 1]]

\* getTokenSale(_index) called from outside: a view function; an index
\* outside the array makes the read of tokenAddresses panic
GetTokenSale(caller, _index) ==
    IF ~(_index < Len(tokenAddresses))
    THEN Revert("getTokenSale", "panic: array out-of-bounds access")
    ELSE /\ lastCall' = Returned("getTokenSale", caller, NoToken, _index,
                                 getTokenSale(_index))
         /\ UNCHANGED contractState
         /\ UNCHANGED tokenData
         /\ UNCHANGED history

\* tokenToSale(_token), the getter of the public mapping
ReadTokenToSale(caller, _token) ==
    /\ lastCall' = Returned("tokenToSale", caller, _token, 0,
                            tokenToSale[_token])
    /\ UNCHANGED contractState
    /\ UNCHANGED tokenData
    /\ UNCHANGED history

\* totalTokens(), fee() and owner(), the getters of the public variables
ReadPublic(caller, name) ==
    /\ lastCall' = Returned(name, caller, NoToken, 0,
                            CASE name = "totalTokens" -> totalTokens
                              [] name = "fee" -> fee
                              [] name = "owner" -> owner)
    /\ UNCHANGED contractState
    /\ UNCHANGED tokenData
    /\ UNCHANGED history

\* getCostPerToken(_sold) called from outside; the function is pure and
\* does not read msg.sender
GetCostPerToken(_sold) ==
    /\ lastCall' = Succeeded("getCostPerToken", ZeroAddress, NoToken, _sold,
                             getCostPerToken(_sold))
    /\ UNCHANGED contractState
    /\ UNCHANGED tokenData
    /\ UNCHANGED history

Next ==
    \/ /\ Len(tokens) < MaxTokens
       /\ \E caller \in Creators, n \in Names, v \in CreateValues :
             Create(caller, n, v)
    \/ \E caller \in Buyers, t \in SaleArgs, a \in BuyAmounts :
          \E v \in BuyValues(TotalPrice(tokenToSale[t], a)) :
             Buy(caller, t, a, v)
    \/ \E caller \in Depositors, t \in SaleArgs : Deposit(caller, t)
    \/ \E caller \in Withdrawers, a \in WithdrawAmounts : Withdraw(caller, a)
    \/ \E caller \in Senders, t \in SaleIds, to \in Receivers,
          v \in TransferAmounts : Transfer(caller, t, to, v)

Spec == Init /\ [][Next]_vars

\* create on its own, with the one purchase the tests make between creations
NextCreate ==
    \/ /\ Len(tokens) < MaxCreated
       /\ \E caller \in AnyCreators, n \in AnyNames, v \in AnyCreateValues :
             Create(caller, n, v)
    \/ \E t \in TokenIds :
          Buy("buyer", t, MAX_PURCHASE,
              TotalPrice(tokenToSale[t], MAX_PURCHASE))

SpecCreate == Init /\ [][NextCreate]_vars

\* settlement on its own: sales of an account that accepts ETH and of one
\* that rejects it, closed by two purchases of MAX_PURCHASE, with the owner
\* withdrawing in between
NextSettle ==
    \/ /\ Len(tokens) < MaxTokens
       /\ \E caller \in SettleCreators, n \in Names :
             Create(caller, n, FEE)
    \/ \E t \in SaleIds :
          \E v \in {TotalPrice(tokenToSale[t], MAX_PURCHASE),
                    TotalPrice(tokenToSale[t], MAX_PURCHASE) + 3 * Ether} :
             Buy("buyer", t, MAX_PURCHASE, v)
    \/ \E caller \in Depositors, t \in SaleIds : Deposit(caller, t)
    \/ \E a \in WithdrawAmounts : Withdraw("deployer", a)

SpecSettle == Init /\ [][NextSettle]_vars

\* settlement of the sales of a contract that re-enters deposit from its
\* receive function
NextReenter ==
    \/ /\ Len(tokens) < MaxTokens
       /\ \E n \in Names : Create(Attacker, n, FEE)
    \/ \E t \in SaleIds :
          \E v \in {TotalPrice(tokenToSale[t], MAX_PURCHASE),
                    TotalPrice(tokenToSale[t], MAX_PURCHASE) + 3 * Ether} :
             Buy("buyer", t, MAX_PURCHASE, v)
    \/ \E caller \in {Attacker, "buyer"}, t \in SaleIds,
          n \in 0..MaxReentries : DepositReentered(caller, t, n)
    \/ \E a \in WithdrawAmounts : Withdraw("deployer", a)

SpecReenter == Init /\ [][NextReenter]_vars

\* custody of the tokens: purchases by a buyer and by the creator at the
\* exact price, transfers among the holders, and the deposit
NextCustody ==
    \/ /\ Len(tokens) < MaxTokens
       /\ \E n \in Names : Create("creator", n, FEE)
    \/ \E caller \in CustodyBuyers, t \in SaleIds, a \in CustodyAmounts :
          Buy(caller, t, a, TotalPrice(tokenToSale[t], a))
    \/ \E caller \in CustodyBuyers, t \in SaleIds,
          to \in CustodyReceivers, v \in TransferAmounts :
             Transfer(caller, t, to, v)
    \/ \E t \in SaleIds : Deposit("creator", t)

SpecCustody == Init /\ [][NextCustody]_vars

\* the queries, called by any account between the mutating calls
NextQuery ==
    \/ /\ Len(tokens) < MaxCreated
       /\ \E n \in Names : Create("creator", n, FEE)
    \/ \E t \in TokenIds :
          Buy("buyer", t, MAX_PURCHASE,
              TotalPrice(tokenToSale[t], MAX_PURCHASE))
    \/ \E t \in TokenIds : Deposit("creator", t)
    \/ Withdraw("deployer", FEE)
    \/ \E caller \in QueryCallers, i \in QueryIndexes :
          GetTokenSale(caller, i)
    \/ \E caller \in QueryCallers, t \in TokenArgs :
          ReadTokenToSale(caller, t)
    \/ \E caller \in QueryCallers, name \in PublicVariables :
          ReadPublic(caller, name)
    \/ \E n \in QuerySold : GetCostPerToken(n)

SpecQuery == Init /\ [][NextQuery]_vars

\* the factory after any of the deployments: a sale from creation to
\* deposit, and every account trying to withdraw
NextDeploy ==
    \/ /\ Len(tokens) < MaxTokens
       /\ \E n \in Names : Create("creator", n, FEE)
    \/ \E t \in SaleIds :
          Buy("buyer", t, MAX_PURCHASE,
              TotalPrice(tokenToSale[t], MAX_PURCHASE))
    \/ \E t \in SaleIds : Deposit("creator", t)
    \/ \E caller \in Users : Withdraw(caller, FEE)

SpecDeploy == InitDeploy /\ [][NextDeploy]_vars

\* the pricing function on its own, applied to a range of sold counts
NextPrice == \E n \in SoldInputs : GetCostPerToken(n)

SpecPrice == Init /\ [][NextPrice]_vars

\* the purchases made where one sale is followed to its closure: the
\* largest quantity is bought as the first purchase of the sale or as the one
\* that closes it, the small one at any time
InSaleOrder(sale, a) ==
    a = MAX_PURCHASE =>
       \/ sale.sold = 0
       \/ SaleAfterBuy(sale, a).isOpen = FALSE

\* the client loads the sale records: the trade dialog of token _index + 1
\* holds the sold count that getTokenSale returns now
loadBlockchainData(_index) ==
    /\ _index < totalTokens
    /\ tokenData' = [token |-> getTokenSale(_index).token,
                     sold |-> getTokenSale(_index).sold]
    /\ lastCall' = Returned("getTokenSale", "buyer", NoToken, _index,
                            getTokenSale(_index))
    /\ UNCHANGED contractState
    /\ UNCHANGED history

\* what the trade dialog attaches to the purchase of amount: the price at
\* the sold count it holds, times the amount, fraction of a unit included
totalCost(amount) == (getCostPerToken(tokenData.sold) * amount) \div UNIT

\* the trade dialog is submitted with amount
buyHandler(amount) ==
    /\ tokenData.token # NoToken
    /\ Buy("buyer", tokenData.token, amount, totalCost(amount))

\* a purchase through the trade dialog of a client that has loaded the sale
\* earlier, with the purchases of other buyers ordered in between
NextQuote ==
    \/ /\ Len(tokens) < MaxTokens
       /\ \E n \in Names : Create("creator", n, FEE)
    \/ \E i \in 0..(MaxTokens - 1) : loadBlockchainData(i)
    \/ \E a \in DialogAmounts : buyHandler(a)
    \/ \E c \in OtherBuyers, t \in SaleIds, a \in OtherAmounts :
          Buy(c, t, a, TotalPrice(tokenToSale[t], a))

SpecQuote == Init /\ [][NextQuote]_vars

\* one sale followed from its creation to its closure and its deposit, with
\* purchases paid at the exact price
NextSale ==
    \/ /\ tokens = <<>>
       /\ \E n \in Names : Create("creator", n, FEE)
    \/ \E t \in 1..Len(tokens), a \in SaleAmounts :
          /\ InSaleOrder(tokenToSale[t], a)
          /\ BuyUpTo(MaxSaleBuys, "buyer", t, a,
                     TotalPrice(tokenToSale[t], a))
    \/ \E t \in 1..Len(tokens) : Deposit("creator", t)

SpecSale == Init /\ [][NextSale]_vars

\* a purchase of a sale that keeps receiving valid purchases
ValidPurchase ==
    \E t \in 1..Len(tokens), a \in LiveAmounts :
       /\ InSaleOrder(tokenToSale[t], a)
       /\ BuyUpTo(MaxSaleBuys, "buyer", t, a, TotalPrice(tokenToSale[t], a))

\* the creation of the one sale
CreateSale ==
    /\ tokens = <<>>
    /\ \E n \in Names : Create("creator", n, FEE)

\* one sale that keeps receiving valid purchases, with attempts to deposit
\* in between
NextLive ==
    \/ CreateSale
    \/ ValidPurchase
    \/ \E t \in 1..Len(tokens) : Deposit("creator", t)

\* every transaction sent is eventually included: the sale is created, and
\* purchases are made as long as one can change anything
SpecLive ==
    /\ Init
    /\ [][NextLive]_vars
    /\ WF_vars(CreateSale)
    /\ WF_vars(ValidPurchase)

\* -------------------------------------------------------------------------
\* Properties
\* -------------------------------------------------------------------------
Created == {tokenAddresses[i] : i \in 1..Len(tokenAddresses)}

BuyAccepted(call) == call.op = "buy" /\ call.ok
BuyRejected(call) == call.op = "buy" /\ ~call.ok

\* raised of the sales on which no deposit has succeeded
UnsettledRaised ==
    [t \in TokenIds |-> IF settled[t] THEN 0 ELSE tokenToSale[t].raised]

\* C1 as stated: the factory's ETH balance equals the creation payments
\* collected plus the raised amounts of the sales not yet settled, minus the
\* amounts withdrawn by the owner, minus the amounts paid out by deposit.
C1_ConservationAsStated ==
    balance = feesCollected + SumOver(UnsettledRaised, TokenIds)
                - withdrawn - SumOver(paidOut, TokenIds)

\* C1 amended: the factory's ETH balance equals the creation payments
\* collected plus the payments attached to the accepted buys, minus the
\* amounts withdrawn by the owner, minus the amounts paid out by deposit.
C1_ConservationOfPayments ==
    balance = feesCollected + buyPayments
                - withdrawn - SumOver(paidOut, TokenIds)

\* every term of the balance is present
C1_Witness ==
    /\ feesCollected > 0
    /\ buyPayments > 0
    /\ withdrawn > 0
    /\ \E t \in TokenIds : paidOut[t] > 0

\* C2: a second deposit on a closed sale moves no ETH and no tokens, and the
\* ETH that the deposit calls on one sale pay to the creator never exceeds
\* that sale's raised.
C2_IdempotentSettlement ==
    /\ [](\A t \in TokenIds : paidOut[t] <= tokenToSale[t].raised)
    /\ [][\A t \in TokenIds :
            (settled[t] /\ lastCall'.op = "deposit" /\ lastCall'.ok
                /\ lastCall'.token = t)
            => (balance' = balance /\ tokens' = tokens)]_vars

\* C3: for every created token the balances of all holders add up to
\* TOTAL_SUPPLY, which is its total supply, in every reachable state.
C3_SupplyConservation ==
    \A t \in 1..Len(tokens) :
        /\ tokens[t].totalSupply = TOTAL_SUPPLY
        /\ SumOver(tokens[t].balanceOf, Holders) = TOTAL_SUPPLY

\* a token that was bought, settled and transferred by a holder
C3_Witness ==
    \E t \in 1..Len(tokens) :
        /\ settled[t]
        /\ transfers > 0
        /\ tokens[t].balanceOf["buyer"] > 0
        /\ tokens[t].balanceOf["creator"] > 0
        /\ tokens[t].balanceOf[Factory] > 0

\* C4: a created sale is closed if and only if its sold has reached
\* TOKEN_LIMIT or its raised has reached TARGET.
C4_ClosureCorrectness ==
    \A t \in Created :
        (tokenToSale[t].isOpen = FALSE)
        <=> (tokenToSale[t].sold >= TOKEN_LIMIT
                \/ tokenToSale[t].raised >= TARGET)

\* the buy that reaches the target exactly has just closed the sale
C4_Witness ==
    /\ BuyAccepted(lastCall)
    /\ tokenToSale[lastCall.token].raised = TARGET
    /\ ~tokenToSale[lastCall.token].isOpen

\* C5: sold and raised of a sale record never decrease, and they change only
\* in an accepted buy on that sale.
C5_Monotonicity ==
    [][\A t \in TokenArgs :
         /\ tokenToSale'[t].sold >= tokenToSale[t].sold
         /\ tokenToSale'[t].raised >= tokenToSale[t].raised
         /\ (tokenToSale'[t].sold # tokenToSale[t].sold
                \/ tokenToSale'[t].raised # tokenToSale[t].raised)
            => (BuyAccepted(lastCall') /\ lastCall'.token = t)]_vars

\* a sale with proceeds after a deposit on it and a withdrawal
C5_Witness ==
    \E t \in Created :
        /\ tokenToSale[t].sold > 0
        /\ tokenToSale[t].raised > 0
        /\ settled[t]
        /\ withdraws > 0

\* C6: a created sale that is closed stays closed, no buy on it is accepted
\* and its sold and raised stay as they are.
C6_ClosedIsTerminal ==
    [][\A t \in Created :
         ~tokenToSale[t].isOpen
         => /\ ~tokenToSale'[t].isOpen
            /\ tokenToSale'[t].sold = tokenToSale[t].sold
            /\ tokenToSale'[t].raised = tokenToSale[t].raised
            /\ ~(BuyAccepted(lastCall') /\ lastCall'.token = t)]_vars

\* a buy was rejected as closed after a sale was closed and settled
C6_Witness ==
    /\ lastCall.op = "buy"
    /\ lastCall.reason = "Factory: Buying closed"
    /\ \E t \in Created : ~tokenToSale[t].isOpen /\ settled[t]

\* C7: getCostPerToken(n) is floor + step * (n div increment), with floor =
\* step = 0.0001 ether and increment = 10,000 tokens, i.e. the floor price
\* once, plus once for every multiple of the increment in 1..n; price(0) =
\* price(9,999 tokens) = 0.0001, price(10,000 tokens) = 0.0002 and
\* price(25,000 tokens) = 0.0003 ether; the call never fails.
C7_PricingFormula ==
    lastCall.op = "getCostPerToken" =>
        LET n == lastCall.amount
            price == lastCall.value
            crossed == {k \in 1..(MaxSteps + 1) : k * (10000 * UNIT) <= n}
        IN /\ lastCall.ok
           /\ price * 10000 = Ether * (1 + Cardinality(crossed))
           /\ n = 0 => price * 10000 = Ether
           /\ n = 9999 * UNIT => price * 10000 = Ether
           /\ n = 10000 * UNIT => price * 10000 = 2 * Ether
           /\ n = 25000 * UNIT => price * 10000 = 3 * Ether

\* the price of 25,000 tokens sold has been queried
C7_Witness ==
    /\ lastCall.op = "getCostPerToken"
    /\ lastCall.amount = 25000 * UNIT
    /\ lastCall.value * 10000 = 3 * Ether

\* C8: an accepted buy(token, q) on a sale with sold s adds q to sold, adds
\* getCostPerToken(s) * (q div 10^18) to raised and moves q units of the
\* token from the factory to the caller.
C8_BuyEffect ==
    [][BuyAccepted(lastCall') =>
         LET t == lastCall'.token
             q == lastCall'.amount
             c == lastCall'.caller
             s == tokenToSale[t].sold
         IN /\ tokenToSale'[t].sold = s + q
            /\ tokenToSale'[t].raised =
                  tokenToSale[t].raised + getCostPerToken(s) * (q \div UNIT)
            /\ tokens'[t].balanceOf[Factory] = tokens[t].balanceOf[Factory] - q
            /\ tokens'[t].balanceOf[c] = tokens[t].balanceOf[c] + q
            /\ \A h \in Holders \ {Factory, c} :
                  tokens'[t].balanceOf[h] = tokens[t].balanceOf[h]]_vars

\* an accepted buy after which the price is higher than the one it was
\* charged at
C8_Witness ==
    /\ BuyAccepted(lastCall)
    /\ getCostPerToken(tokenToSale[lastCall.token].sold)
          > getCostPerToken(tokenToSale[lastCall.token].sold - lastCall.amount)

\* C9: no buy is accepted with a quantity below MIN_PURCHASE or above
\* MAX_PURCHASE or with a payment below getCostPerToken(sold) * (quantity
\* div 10^18), and a rejected buy leaves the sale records, the token
\* balances and the factory's ETH balance as they were.
C9_BuyValidation ==
    [][/\ BuyAccepted(lastCall') =>
            LET sale == tokenToSale[lastCall'.token]
                q == lastCall'.amount
            IN /\ q >= MIN_PURCHASE
               /\ q <= MAX_PURCHASE
               /\ lastCall'.value >= getCostPerToken(sale.sold) * (q \div UNIT)
       /\ BuyRejected(lastCall') =>
            /\ tokenToSale' = tokenToSale
            /\ tokens' = tokens
            /\ balance' = balance]_vars

\* a buy was rejected for its quantity on a sale that has sold units
C9_Witness ==
    /\ lastCall.op = "buy"
    /\ lastCall.reason = "Factory: Amount exceeded"
    /\ \E t \in Created : tokenToSale[t].isOpen /\ tokenToSale[t].sold > 0

\* C10: a buy is accepted only for a created token whose sale is open;
\* a buy rejected because the sale is missing or closed changes no state.
C10_BuyStateCheck ==
    [][/\ BuyAccepted(lastCall') =>
            /\ lastCall'.token \in Created
            /\ tokenToSale[lastCall'.token].isOpen
       /\ (BuyRejected(lastCall')
             /\ lastCall'.reason = "Factory: Buying closed") =>
            UNCHANGED <<contractState, history>>]_vars

\* a buy was rejected as closed while a closed sale awaits its deposit
C10_Witness ==
    /\ lastCall.op = "buy"
    /\ lastCall.reason = "Factory: Buying closed"
    /\ \E t \in Created : ~tokenToSale[t].isOpen /\ ~settled[t]

\* C11: a buy that passes the other checks and pays more than the computed
\* cost is accepted; an accepted buy adds its whole payment to the factory's
\* ETH balance, sends no ETH to anyone and adds only the computed cost to
\* raised; with exact payment the balance after one create and one buy is
\* fee + cost.
C11_Overpayment ==
    [][/\ \A c \in Buyers, t \in Created, q \in BuyAmounts :
            LET sale == tokenToSale[t]
                cost == getCostPerToken(sale.sold) * (q \div UNIT)
            IN (/\ sale.isOpen
                /\ q >= MIN_PURCHASE
                /\ q <= MAX_PURCHASE
                /\ Buy(c, t, q, cost + 3 * Ether))
               => BuyAccepted(lastCall')
       /\ BuyAccepted(lastCall') =>
            LET t == lastCall'.token
                cost == getCostPerToken(tokenToSale[t].sold)
                           * (lastCall'.amount \div UNIT)
            IN /\ balance' = balance + lastCall'.value
               /\ received' = received
               /\ tokenToSale'[t].raised = tokenToSale[t].raised + cost
               /\ (lastCall'.value = cost /\ balance = fee)
                     => balance' = fee + cost]_vars

\* an accepted buy that paid more than its cost
C11_Witness ==
    /\ BuyAccepted(lastCall)
    /\ lastCall.value >
          getCostPerToken(tokenToSale[lastCall.token].sold - lastCall.amount)
             * (lastCall.amount \div UNIT)
    /\ balance = feesCollected + buyPayments
    /\ balance > feesCollected + tokenToSale[lastCall.token].raised

\* C12: a create call succeeds if and only if its payment is at least fee; a
\* rejected create leaves totalTokens, tokenAddresses, the sale records and
\* the factory's ETH balance as they were and deploys no token.
C12_CreatePrecondition ==
    [][/\ \A c \in Creators, n \in Names, v \in CreateValues :
            Create(c, n, v) => (lastCall'.ok <=> v >= fee)
       /\ (lastCall'.op = "create" /\ ~lastCall'.ok) =>
            /\ totalTokens' = totalTokens
            /\ tokenAddresses' = tokenAddresses
            /\ tokenToSale' = tokenToSale
            /\ balance' = balance
            /\ tokens' = tokens]_vars

\* a create was rejected for its payment and no token exists
C12_Witness ==
    /\ lastCall.op = "create"
    /\ lastCall.reason = "Factory: Creator fee not met"
    /\ tokens = <<>>
    /\ totalTokens = 0

CreateAccepted(call) == call.op = "create" /\ call.ok

\* C13: a successful create appends one new token address at the end of
\* tokenAddresses, adds one to totalTokens and stores for that address a
\* record with the given name, the caller as creator, sold = 0, raised = 0
\* and isOpen = true, leaving the other records alone; getTokenSale(
\* totalTokens - 1) then returns that record.
C13_CreateLedger ==
    [][\A c \in AnyCreators, n \in AnyNames, v \in AnyCreateValues :
         (Create(c, n, v) /\ CreateAccepted(lastCall')) =>
            LET id == lastCall'.token IN
            /\ id \notin Created
            /\ tokenAddresses' = Append(tokenAddresses, id)
            /\ totalTokens' = totalTokens + 1
            /\ tokenToSale'[id] =
                  [token |-> id, name |-> n, creator |-> c,
                   sold |-> 0, raised |-> 0, isOpen |-> TRUE]
            /\ \A t \in TokenArgs \ {id} : tokenToSale'[t] = tokenToSale[t]
            /\ getTokenSale(totalTokens - 1)' = tokenToSale'[id]]_vars

\* a second token was just created, with another name and by another
\* caller than the first, which has sold units
C13_Witness ==
    /\ CreateAccepted(lastCall)
    /\ totalTokens = 2
    /\ tokenAddresses = <<1, 2>>
    /\ tokenToSale[1].sold > 0
    /\ tokenToSale[2].name # tokenToSale[1].name
    /\ tokenToSale[2].creator # tokenToSale[1].creator
    /\ getTokenSale(1) = tokenToSale[2]

\* C14: right after a successful create the new token has total supply
\* TOTAL_SUPPLY, all of it held by the factory and none by any other holder,
\* the creator included; its owner is the factory and its creator is the
\* caller of create; the tokens created before are untouched.
C14_CreateMintsIntoCustody ==
    [][\A c \in AnyCreators, n \in AnyNames, v \in AnyCreateValues :
         (Create(c, n, v) /\ CreateAccepted(lastCall')) =>
            LET id == lastCall'.token
                tok == tokens'[id]
            IN /\ Len(tokens') = Len(tokens) + 1
               /\ id = Len(tokens')
               /\ tok.totalSupply = TOTAL_SUPPLY
               /\ tok.balanceOf[Factory] = TOTAL_SUPPLY
               /\ \A h \in Holders \ {Factory} : tok.balanceOf[h] = 0
               /\ tok.owner = Factory
               /\ tok.creator = c
               /\ \A t \in 1..Len(tokens) : tokens'[t] = tokens[t]]_vars

\* a token was just created by an account that holds units of an earlier
\* token
C14_Witness ==
    /\ CreateAccepted(lastCall)
    /\ lastCall.token = 2
    /\ tokens[2].creator = "buyer"
    /\ tokens[2].balanceOf[Factory] = TOTAL_SUPPLY
    /\ tokens[1].balanceOf["buyer"] > 0

\* C15: a successful create adds its whole payment, any excess over fee
\* included, to the factory's ETH balance, sends no ETH to anyone and leaves
\* raised of every sale as it was, 0 for the new one; after deployment and
\* one create paying fee the balance is fee.
C15_CreateRetainsPayment ==
    [][CreateAccepted(lastCall') =>
         LET id == lastCall'.token IN
         /\ balance' = balance + lastCall'.value
         /\ received' = received
         /\ tokenToSale'[id].raised = 0
         /\ \A t \in TokenArgs \ {id} :
               tokenToSale'[t].raised = tokenToSale[t].raised
         /\ (balance = 0 /\ lastCall'.value = fee) => balance' = fee]_vars

\* a create that paid more than the fee, made while another sale has
\* proceeds
C15_Witness ==
    /\ CreateAccepted(lastCall)
    /\ lastCall.value > fee
    /\ \E t \in Created : tokenToSale[t].raised > 0
    /\ balance = feesCollected + buyPayments

DepositAccepted(call) == call.op = "deposit" /\ call.ok

\* C16: a deposit on a sale that is open is rejected and changes nothing: no
\* token and no ETH moves and no record changes; a deposit is accepted only
\* on a sale that is closed.
C16_SettlePrecondition ==
    [][/\ \A c \in Depositors, t \in TokenArgs :
            (tokenToSale[t].isOpen /\ Deposit(c, t)) =>
               /\ ~lastCall'.ok
               /\ lastCall'.reason = "Factory: Target not reached"
               /\ UNCHANGED <<contractState, history>>
       /\ DepositAccepted(lastCall') =>
            ~tokenToSale[lastCall'.token].isOpen]_vars

\* a deposit was rejected on an open sale that has proceeds
C16_Witness ==
    /\ lastCall.op = "deposit"
    /\ lastCall.reason = "Factory: Target not reached"
    /\ \E t \in Created : tokenToSale[t].isOpen /\ tokenToSale[t].raised > 0

\* C17: a deposit on a closed sale of a created token, by whichever caller,
\* succeeds when the factory holds raised in ETH; a successful deposit moves
\* all the units of the token that the factory holds at that moment to the
\* sale's creator, leaving the factory with none, and moves exactly raised in
\* ETH from the factory to the creator.
C17_SettleEffect ==
    [][\A c \in Depositors, t \in Created :
         LET sale == tokenToSale[t]
             held == tokens[t].balanceOf[Factory]
         IN (/\ ~sale.isOpen
             /\ Deposit(c, t)
             /\ (DepositAccepted(lastCall')
                   \/ (balance >= sale.raised /\ sale.creator # Rejector)))
            => /\ DepositAccepted(lastCall')
               /\ tokens'[t].balanceOf[Factory] = 0
               /\ tokens'[t].balanceOf[sale.creator] =
                     tokens[t].balanceOf[sale.creator] + held
               /\ \A h \in Holders \ {Factory, sale.creator} :
                     tokens'[t].balanceOf[h] = tokens[t].balanceOf[h]
               /\ balance' = balance - sale.raised
               /\ received' = [received EXCEPT ![sale.creator] =
                                  @ + sale.raised]]_vars

\* a deposit called by an account other than the creator has swept units
\* that a buyer had sent back to the factory along with the unsold ones
C17_Witness ==
    /\ DepositAccepted(lastCall)
    /\ lastCall.caller # tokenToSale[lastCall.token].creator
    /\ lastCall.amount > TOTAL_SUPPLY - tokenToSale[lastCall.token].sold
    /\ lastCall.value = tokenToSale[lastCall.token].raised
    /\ lastCall.value > 0
    /\ tokens[lastCall.token].balanceOf[Factory] = 0

\* C18: a deposit whose ETH transfer fails, because the creator rejects it
\* or because the factory holds less than raised, is rolled back as a whole:
\* token balances, the factory's ETH balance and the records are as before
\* the call; in no state has the creator of a sale the swept tokens without
\* the ETH or the ETH without the tokens.
C18_SettleAtomicity ==
    /\ [][\A c \in Depositors, t \in Created :
            LET sale == tokenToSale[t] IN
            (/\ ~sale.isOpen
             /\ sale.creator = Rejector \/ balance < sale.raised
             /\ Deposit(c, t))
            => /\ ~lastCall'.ok
               /\ lastCall'.reason = "Factory: ETH transfer failed"
               /\ UNCHANGED <<contractState, history>>]_vars
    /\ [](\A t \in Created :
            tokens[t].balanceOf[tokenToSale[t].creator] > 0
            <=> paidOut[t] > 0)

\* a deposit to a creator that rejects ETH failed while the factory holds
\* raised; the creator has received no tokens
C18_Witness ==
    /\ lastCall.op = "deposit"
    /\ lastCall.reason = "Factory: ETH transfer failed"
    /\ \E t \in Created :
          /\ ~tokenToSale[t].isOpen
          /\ tokenToSale[t].creator = Rejector
          /\ balance >= tokenToSale[t].raised
          /\ tokens[t].balanceOf[Rejector] = 0

WithdrawAccepted(call) == call.op = "withdraw" /\ call.ok

\* C19: a withdraw called by an account other than owner is rejected,
\* whatever the amount, and leaves the factory's ETH balance and all other
\* state as it was; only the owner's withdraw is accepted.
C19_WithdrawAuthorization ==
    [][/\ \A c \in Withdrawers, a \in WithdrawAmounts :
            (c # owner /\ Withdraw(c, a)) =>
               /\ ~lastCall'.ok
               /\ lastCall'.reason = "Factory: Not owner"
               /\ UNCHANGED <<contractState, history>>
       /\ WithdrawAccepted(lastCall') => lastCall'.caller = owner]_vars

\* a withdraw was rejected for its caller while the factory holds more than
\* every amount asked for
C19_Witness ==
    /\ lastCall.op = "withdraw"
    /\ lastCall.reason = "Factory: Not owner"
    /\ \A a \in WithdrawAmounts : balance >= a
    /\ withdrawn = 0

\* C20: a withdraw by the owner of an amount up to the factory's ETH balance
\* succeeds, takes exactly the amount off that balance, pays it to the owner
\* and changes no sale record and no token balance; withdrawing fee when
\* the balance is the fee of one create leaves 0; a withdraw of more than the
\* balance fails and changes nothing.
C20_WithdrawEffect ==
    [][\A a \in WithdrawAmounts :
         Withdraw(owner, a) =>
            IF a <= balance
            THEN /\ WithdrawAccepted(lastCall')
                 /\ lastCall'.amount = a
                 /\ balance' = balance - a
                 /\ received' = [received EXCEPT ![owner] = @ + a]
                 /\ tokenToSale' = tokenToSale
                 /\ tokens' = tokens
                 /\ (a = fee /\ balance = fee) => balance' = 0
            ELSE /\ ~lastCall'.ok
                 /\ lastCall'.reason = "Factory: ETH transfer failed"
                 /\ UNCHANGED <<contractState, history>>]_vars

\* the owner has withdrawn the fee of the one create, leaving nothing
C20_Witness ==
    /\ WithdrawAccepted(lastCall)
    /\ lastCall.amount = fee
    /\ totalTokens = 1
    /\ feesCollected = fee
    /\ buys = 0
    /\ balance = 0
    /\ received[owner] = fee

\* C21: one deposit call pays the creator of the sale no more than the
\* sale's raised, also when the creator's receive function re-enters the
\* factory during the ETH transfer.
C21_ReentrancySafety ==
    [][DepositAccepted(lastCall') =>
         LET sale == tokenToSale[lastCall'.token] IN
         received'[sale.creator] - received[sale.creator] <= sale.raised]_vars

\* C22: the factory's ETH balance is at least the sum of raised over the
\* sales on which no deposit has succeeded: sale proceeds leave the factory
\* only through the deposit on their sale.
C22_ProceedsLeaveBySettlement ==
    balance >= SumOver(UnsettledRaised, TokenIds)

\* C23: a deposit on a closed sale on which no deposit has succeeded yet and
\* whose creator accepts ETH succeeds, in whatever state it is called.
C23_SettlementCompletable ==
    [][\A c \in Depositors, t \in Created :
         (/\ ~tokenToSale[t].isOpen
          /\ ~settled[t]
          /\ tokenToSale[t].creator # Rejector
          /\ Deposit(c, t))
         => DepositAccepted(lastCall')]_vars

\* the accounts that have bought units of token t
BuyersOf(t) == {a \in Accounts : bought[t][a] > 0}

\* C24 as stated: for every token on which no deposit has succeeded and to
\* which no holder has sent units back, the factory holds TOTAL_SUPPLY -
\* sold, the balances of the buyers add up to sold, and the creator holds no
\* more than it bought itself.
C24_CustodyAsStated ==
    \A t \in Created :
        (~settled[t] /\ sentTo[t][Factory] = 0) =>
            /\ tokens[t].balanceOf[Factory] = TOTAL_SUPPLY - tokenToSale[t].sold
            /\ SumOver(tokens[t].balanceOf, BuyersOf(t)) = tokenToSale[t].sold
            /\ tokens[t].balanceOf[tokenToSale[t].creator]
                  <= bought[t][tokenToSale[t].creator]

\* C24 amended: for every token on which no deposit has succeeded and to
\* which no holder has sent units back, the factory holds TOTAL_SUPPLY - sold
\* and the balances of all other holders add up to sold; if moreover no
\* holder has transferred units of it at all, every account, the creator
\* included, holds exactly the units it bought itself.
C24_CustodyBeforeSettlement ==
    \A t \in Created :
        (~settled[t] /\ sentTo[t][Factory] = 0) =>
            /\ tokens[t].balanceOf[Factory] = TOTAL_SUPPLY - tokenToSale[t].sold
            /\ SumOver(tokens[t].balanceOf, Accounts) = tokenToSale[t].sold
            /\ (\A h \in Holders : sentTo[t][h] = 0) =>
                  \A a \in Accounts : tokens[t].balanceOf[a] = bought[t][a]

\* on an unsettled token the creator holds units that a buyer sent to it
C24_Witness ==
    \E t \in Created :
        /\ ~settled[t]
        /\ sentTo[t][Factory] = 0
        /\ sentTo[t][tokenToSale[t].creator] > 0
        /\ tokens[t].balanceOf[tokenToSale[t].creator]
              > bought[t][tokenToSale[t].creator]
        /\ tokenToSale[t].sold > 0

\* C25: after deployment with fee 0.01 ether and one create, a buy of 10,000
\* tokens paying 1 ether is accepted and gives sold = 10,000 tokens, raised =
\* 1 ether, isOpen = true; a second buy of 10,000 tokens paying 2 ether is
\* accepted and gives sold = 20,000 tokens, raised = 3 ether, isOpen =
\* false; the deposit that follows succeeds, leaves the creator with 980,000
\* tokens and pays it 3 ether.
C25_EndToEndScenario ==
    [][\A c \in Users, t \in Created :
         LET sale == tokenToSale[t]
             fresh == /\ fee * 100 = Ether
                      /\ totalTokens = 1
                      /\ withdrawn = 0
                      /\ ~settled[t]
                      /\ \A h \in Holders : sentTo[t][h] = 0
         IN
         /\ (/\ fresh
             /\ sale.sold = 0
             /\ sale.raised = 0
             /\ Buy(c, t, 10000 * UNIT, 1 * Ether))
            => /\ BuyAccepted(lastCall')
               /\ tokenToSale'[t].sold = 10000 * UNIT
               /\ tokenToSale'[t].raised = 1 * Ether
               /\ tokenToSale'[t].isOpen
         /\ (/\ fresh
             /\ sale.sold = 10000 * UNIT
             /\ sale.raised = 1 * Ether
             /\ Buy(c, t, 10000 * UNIT, 2 * Ether))
            => /\ BuyAccepted(lastCall')
               /\ tokenToSale'[t].sold = 20000 * UNIT
               /\ tokenToSale'[t].raised = 3 * Ether
               /\ ~tokenToSale'[t].isOpen
         /\ (/\ fresh
             /\ sale.sold = 20000 * UNIT
             /\ sale.raised = 3 * Ether
             /\ bought[t][sale.creator] = 0
             /\ Deposit(c, t))
            => /\ DepositAccepted(lastCall')
               /\ tokens'[t].balanceOf[sale.creator] = 980000 * UNIT
               /\ tokens'[t].balanceOf[Factory] = 0
               /\ received'[sale.creator] = received[sale.creator] + 3 * Ether
               /\ balance' = balance - 3 * Ether]_vars

\* the scenario has run to its end: two purchases at the exact price and
\* the deposit
C25_Witness ==
    /\ DepositAccepted(lastCall)
    /\ totalTokens = 1
    /\ buys = 2
    /\ buyPayments = 3 * Ether
    /\ tokenToSale[1].sold = 20000 * UNIT
    /\ tokens[1].balanceOf[tokenToSale[1].creator] = 980000 * UNIT
    /\ received[tokenToSale[1].creator] = 3 * Ether
    /\ balance * 100 = Ether

\* C26: totalTokens is the length of tokenAddresses; the addresses in the
\* list are pairwise distinct and in the order of creation; every address in
\* the list has a sale record whose token field is that address; every
\* address outside the list has the default record.
C26_ListMapConsistency ==
    /\ totalTokens = Len(tokenAddresses)
    /\ Len(tokens) = Len(tokenAddresses)
    /\ \A i, j \in 1..Len(tokenAddresses) :
          i # j => tokenAddresses[i] # tokenAddresses[j]
    /\ \A i \in 1..Len(tokenAddresses) : tokenAddresses[i] = i
    /\ \A t \in Created : tokenToSale[t].token = t
    /\ \A t \in TokenArgs \ Created : tokenToSale[t] = DefaultSale

\* two tokens are listed, the first with units sold, while an address has
\* no record
C26_Witness ==
    /\ totalTokens = 2
    /\ tokenToSale[tokenAddresses[1]].sold > 0
    /\ tokenToSale[tokenAddresses[2]].creator
          # tokenToSale[tokenAddresses[1]].creator
    /\ \E t \in TokenArgs : tokenToSale[t] = DefaultSale

\* C27: a successful deposit changes no field of any sale record and leaves
\* tokenAddresses and totalTokens as they are; the record of a settled sale
\* stays as it is in every later step, and getTokenSale and tokenToSale
\* return it.
C27_RecordRetention ==
    [][/\ DepositAccepted(lastCall') =>
            /\ tokenToSale' = tokenToSale
            /\ tokenAddresses' = tokenAddresses
            /\ totalTokens' = totalTokens
            /\ \A i \in 0..(totalTokens - 1) :
                  getTokenSale(i)' = getTokenSale(i)
       /\ \A i \in 0..(totalTokens - 1) :
            settled[tokenAddresses[i + 1]] =>
               /\ getTokenSale(i)' = getTokenSale(i)
               /\ tokenToSale'[tokenAddresses[i + 1]]
                     = tokenToSale[tokenAddresses[i + 1]]
               /\ getTokenSale(i)'.token = tokenAddresses[i + 1]]_vars

\* a deposit has just paid out a sale and its record still shows the units
\* sold and the proceeds
C27_Witness ==
    /\ DepositAccepted(lastCall)
    /\ lastCall.value > 0
    /\ getTokenSale(0).token = lastCall.token
    /\ getTokenSale(0).raised = lastCall.value
    /\ getTokenSale(0).sold > 0
    /\ ~getTokenSale(0).isOpen
    /\ getTokenSale(0).name = "MOONLIGHT APP"

Queries == {"getTokenSale", "tokenToSale", "getCostPerToken"}
              \cup PublicVariables

\* C28: getTokenSale, tokenToSale, getCostPerToken, totalTokens, fee and
\* owner change no state; every account can call them in every reachable
\* state, getTokenSale for every index below totalTokens; each returns the
\* value that the state between the two mutating calls around it holds.
C28_QueriesAreReadOnly ==
    /\ [][lastCall'.op \in Queries =>
            /\ UNCHANGED <<contractState, history>>
            /\ lastCall'.ok =>
                 LET call == lastCall' IN
                 /\ call.op = "getTokenSale" =>
                       /\ call.amount < totalTokens
                       /\ call.result
                             = <<tokenToSale[tokenAddresses[call.amount + 1]]>>
                 /\ call.op = "tokenToSale" =>
                       call.result = <<tokenToSale[call.token]>>
                 /\ call.op = "totalTokens" => call.result = <<totalTokens>>
                 /\ call.op = "fee" => call.result = <<fee>>
                 /\ call.op = "owner" => call.result = <<owner>>
                 /\ call.op = "getCostPerToken" =>
                       call.value = getCostPerToken(call.amount)
            /\ ~lastCall'.ok =>
                 /\ lastCall'.op = "getTokenSale"
                 /\ \E i \in QueryIndexes :
                       i >= totalTokens /\ GetTokenSale(Attacker, i)]_vars
    /\ [](\A c \in QueryCallers :
            /\ \A i \in 0..(totalTokens - 1) :
                  ENABLED (GetTokenSale(c, i) /\ lastCall'.ok)
            /\ \A t \in TokenArgs : ENABLED ReadTokenToSale(c, t)
            /\ \A name \in PublicVariables : ENABLED ReadPublic(c, name)
            /\ \A n \in QuerySold : ENABLED GetCostPerToken(n))

\* the record of the first of two tokens was read by index after its sale
\* was paid out
C28_Witness ==
    /\ lastCall.op = "getTokenSale"
    /\ lastCall.ok
    /\ lastCall.amount = 0
    /\ totalTokens = 2
    /\ settled[tokenAddresses[1]]
    /\ lastCall.result = <<tokenToSale[tokenAddresses[1]]>>
    /\ lastCall.result # <<tokenToSale[tokenAddresses[2]]>>

\* C29: right after deployment fee is the constructor argument and owner is
\* the deployer, and no call changes fee or owner.
C29_DeploymentConstants ==
    /\ [](lastCall.op = "constructor" =>
             /\ fee = lastCall.amount
             /\ owner = lastCall.caller)
    /\ [][fee' = fee /\ owner' = owner]_vars

\* a factory deployed by another account than the tests' deployer, with
\* another fee, after a create, a deposit and a withdrawal by its owner
C29_Witness ==
    /\ owner = "buyer"
    /\ fee = 0
    /\ totalTokens > 0
    /\ \E t \in Created : settled[t]
    /\ received[owner] > 0

\* the multiples of the increment that lie above a and at or below b
Crossed(a, b) ==
    {k \in 1..(MaxSteps + 1) : a < k * (10000 * UNIT) /\ k * (10000 * UNIT) <= b}

\* C30: of two sold counts a <= b, getCostPerToken(a) <= getCostPerToken(b),
\* and the two prices differ by exactly one step of 0.0001 ether for every
\* multiple of the increment between them, so the price is the same when
\* none is crossed.
C30_PriceMonotonicity ==
    [][(lastCall.op = "getCostPerToken" /\ lastCall'.op = "getCostPerToken"
          /\ lastCall.amount <= lastCall'.amount)
       => /\ lastCall.value <= lastCall'.value
          /\ (lastCall'.value - lastCall.value) * 10000
                = Ether * Cardinality(Crossed(lastCall.amount,
                                              lastCall'.amount))]_vars

\* the price was read one unit below a multiple of the increment and then
\* at the multiple, and it rose
C30_Witness ==
    /\ lastCall.op = "getCostPerToken"
    /\ lastCall.amount = 20000 * UNIT
    /\ lastCall.value > getCostPerToken(20000 * UNIT - 1)
    /\ lastCall.value = getCostPerToken(20000 * UNIT + 1)

\* the four reasons for which buy rejects a call before it changes anything
BuyReasons ==
    {"Factory: Buying closed", "Factory: Amount too low",
     "Factory: Amount exceeded", "Factory: Insufficient ETH received"}

\* C31: buy checks, in this order, that the sale exists and is open, that the
\* quantity is at least MIN_PURCHASE, that it is at most MAX_PURCHASE, and
\* that the payment covers the cost; a call that violates several of them is
\* rejected with the reason of the first one it violates, and a call that
\* violates none is rejected with none of the four reasons.
C31_OrderOfBuyChecks ==
    [][\A c \in Buyers, t \in SaleArgs, a \in BuyAmounts :
          \A v \in BuyValues(TotalPrice(tokenToSale[t], a)) :
             LET closed == ~tokenToSale[t].isOpen
                 low == a < MIN_PURCHASE
                 high == a > MAX_PURCHASE
                 short == v < getCostPerToken(tokenToSale[t].sold)
                                 * (a \div UNIT)
                 reason == lastCall'.reason
             IN Buy(c, t, a, v) =>
                  /\ closed => reason = "Factory: Buying closed"
                  /\ ~closed /\ low => reason = "Factory: Amount too low"
                  /\ ~closed /\ ~low /\ high
                        => reason = "Factory: Amount exceeded"
                  /\ ~closed /\ ~low /\ ~high /\ short
                        => reason = "Factory: Insufficient ETH received"
                  /\ ~closed /\ ~low /\ ~high /\ ~short
                        => reason \notin BuyReasons]_vars

\* a purchase was refused as closed on a sale that exists and that purchases
\* have closed, whatever its quantity and its payment were
C31_Witness ==
    /\ BuyRejected(lastCall)
    /\ lastCall.reason = "Factory: Buying closed"
    /\ \E t \in Created : ~tokenToSale[t].isOpen /\ tokenToSale[t].sold > 0

\* the call that has just run was rejected and has left the contracts and
\* what they have done so far as they were
RejectedWithoutEffect ==
    /\ ~lastCall'.ok
    /\ UNCHANGED <<contractState, history>>

\* C32: a rejected create, buy, deposit or withdraw (fee not covered, sale
\* closed or unknown, quantity out of bounds, payment not covered, sale still
\* open, caller not the owner, ETH transfer failed) leaves the records,
\* tokenAddresses, totalTokens, every token balance and every ETH balance as
\* they were before the call, and each of these conditions does reject.
C32_RejectionAtomicity ==
    [][/\ \A c \in Creators, n \in Names, v \in CreateValues :
            (v < fee /\ Create(c, n, v)) => RejectedWithoutEffect
       /\ \A c \in Buyers, t \in SaleArgs, a \in BuyAmounts :
            \A v \in BuyValues(TotalPrice(tokenToSale[t], a)) :
               (/\ \/ ~tokenToSale[t].isOpen
                   \/ a < MIN_PURCHASE
                   \/ a > MAX_PURCHASE
                   \/ v < getCostPerToken(tokenToSale[t].sold)
                            * (a \div UNIT)
                /\ Buy(c, t, a, v)) => RejectedWithoutEffect
       /\ \A c \in Depositors, t \in SaleArgs :
            (/\ \/ tokenToSale[t].isOpen
                \/ t \notin Created
                \/ balance < tokenToSale[t].raised
             /\ Deposit(c, t)) => RejectedWithoutEffect
       /\ \A c \in Withdrawers, a \in WithdrawAmounts :
            ((c # owner \/ balance < a) /\ Withdraw(c, a))
               => RejectedWithoutEffect
       /\ ~lastCall'.ok => UNCHANGED <<contractState, history>>]_vars

\* the deposit on a closed sale whose proceeds the factory no longer holds
\* was rejected for the failed ETH transfer, and the tokens it had swept
\* before the transfer are in the factory again
C32_Witness ==
    /\ lastCall.op = "deposit"
    /\ ~lastCall.ok
    /\ lastCall.reason = "Factory: ETH transfer failed"
    /\ \E t \in Created :
          /\ ~tokenToSale[t].isOpen
          /\ balance < tokenToSale[t].raised
          /\ tokens[t].balanceOf[Factory] = TOTAL_SUPPLY - tokenToSale[t].sold
          /\ ~settled[t]

\* C33: in every state sold < TOKEN_LIMIT + MAX_PURCHASE < TOTAL_SUPPLY, so
\* the factory holds at least the quantity of every purchase that passes the
\* four checks of buy, whose token transfer therefore does not fail, and the
\* first deposit on a sale sweeps a remainder greater than zero.
C33_InventorySufficiency ==
    /\ [](/\ TOKEN_LIMIT + MAX_PURCHASE < TOTAL_SUPPLY
          /\ \A t \in Created :
                /\ tokenToSale[t].sold < TOKEN_LIMIT + MAX_PURCHASE
                /\ ~settled[t] =>
                      tokens[t].balanceOf[Factory] > 0)
    /\ [][/\ \A t \in Created, a \in SaleAmounts :
              (/\ tokenToSale[t].isOpen
               /\ BuyUpTo(MaxSaleBuys, "buyer", t, a,
                          TotalPrice(tokenToSale[t], a)))
                  => BuyAccepted(lastCall')
          /\ \A t \in Created :
               (/\ ~settled[t]
                /\ Deposit("creator", t)
                /\ DepositAccepted(lastCall')) => lastCall'.amount > 0]_vars

\* a purchase of MAX_PURCHASE has closed a sale that had sold more than twice
\* MAX_PURCHASE in small purchases, and the factory holds the rest of the
\* supply
C33_Witness ==
    /\ BuyAccepted(lastCall)
    /\ lastCall.amount = MAX_PURCHASE
    /\ \E t \in Created :
          /\ ~tokenToSale[t].isOpen
          /\ tokenToSale[t].sold > 3 * MAX_PURCHASE
          /\ tokens[t].balanceOf[Factory] = TOTAL_SUPPLY - tokenToSale[t].sold

\* the price of the first unit of a sale
FloorPrice == Ether \div 10000

\* C34: every accepted purchase adds at least the floor price to raised, so
\* a sale accepts at most TARGET / floor purchases, and a sale that keeps
\* receiving valid purchases is eventually closed.
C34_BoundedSaleLength ==
    /\ [][BuyAccepted(lastCall') =>
            tokenToSale'[lastCall'.token].raised
               >= tokenToSale[lastCall'.token].raised + FloorPrice]_vars
    /\ [](\A t \in Created :
            /\ buys * FloorPrice <= tokenToSale[t].raised
            /\ buys <= TARGET \div FloorPrice)
    /\ \A t \in SaleIds :
          tokenToSale[t].isOpen ~> ~tokenToSale[t].isOpen

\* a sale is closed after a number of accepted purchases that is more than
\* half of TARGET / floor
C34_Witness ==
    /\ BuyAccepted(lastCall)
    /\ ~tokenToSale[lastCall.token].isOpen
    /\ 2 * buys > TARGET \div FloorPrice

\* C35: with the constants of the contract a sale reaches raised >= TARGET
\* while sold < TOKEN_LIMIT: sold < TOKEN_LIMIT in every state, and every
\* sale that purchases have closed has raised >= TARGET, so none is closed
\* by the token limit.
C35_DeadClosingCondition ==
    /\ [](\A t \in Created :
            /\ tokenToSale[t].sold < TOKEN_LIMIT
            /\ ~tokenToSale[t].isOpen => tokenToSale[t].raised >= TARGET)
    /\ [][\A t \in Created :
            (tokenToSale[t].isOpen /\ ~tokenToSale'[t].isOpen) =>
               /\ tokenToSale[t].raised < TARGET
               /\ tokenToSale'[t].raised >= TARGET
               /\ tokenToSale'[t].sold < TOKEN_LIMIT]_vars

\* a sale bought in purchases that take the most units for the price of one
\* has been closed by one of them
C35_Witness ==
    /\ BuyAccepted(lastCall)
    /\ lastCall.amount = MIN_PURCHASE + (UNIT - 1)
    /\ LET sale == tokenToSale[lastCall.token] IN
       /\ ~sale.isOpen
       /\ sale.raised >= TARGET
       /\ sale.sold > 2 * MAX_PURCHASE
       /\ sale.sold < TOKEN_LIMIT

\* the quantities that buy accepts
InRange(a) == a >= MIN_PURCHASE /\ a <= MAX_PURCHASE

\* C36: buy charges for the whole units of the quantity only: two quantities
\* within [MIN_PURCHASE, MAX_PURCHASE] with the same whole-unit part cost the
\* same at a given sold count, while sold grows by the full quantity and the
\* buyer receives the full quantity; what a purchase adds to raised is less
\* than price * quantity / 10^18 by the price of the fraction, which is less
\* than one unit price.
C36_WholeUnitCharging ==
    [][\A c \in Buyers, t \in SaleIds, a \in BuyAmounts :
         \A v \in BuyValues(TotalPrice(tokenToSale[t], a)) :
            (Buy(c, t, a, v) /\ BuyAccepted(lastCall')) =>
               LET sale == tokenToSale[t]
                   price == getCostPerToken(sale.sold)
                   charged == tokenToSale'[t].raised - sale.raised
                   exact == (price * a) \div UNIT
               IN /\ charged = price * (a \div UNIT)
                  /\ tokenToSale'[t].sold = sale.sold + a
                  /\ tokens'[t].balanceOf[c] = tokens[t].balanceOf[c] + a
                  /\ charged <= exact
                  /\ exact - charged = (price * (a % UNIT)) \div UNIT
                  /\ exact - charged < price
                  /\ \A b \in BuyAmounts :
                        (InRange(b) /\ b \div UNIT = a \div UNIT) =>
                           /\ TotalPrice(sale, b) = charged
                           /\ BuyRejection(sale, b, v) = ""]_vars

\* a purchase of one unit and a fraction of a unit was accepted as the first
\* purchase of a sale: the buyer holds the full quantity and raised is less
\* than the price of that quantity
C36_Witness ==
    /\ BuyAccepted(lastCall)
    /\ lastCall.amount % UNIT # 0
    /\ LET sale == tokenToSale[lastCall.token] IN
       /\ sale.sold = lastCall.amount
       /\ tokens[lastCall.token].balanceOf[lastCall.caller] = lastCall.amount
       /\ sale.raised * UNIT < getCostPerToken(0) * sale.sold

\* C37 as stated: a purchase submitted through the trade dialog, paid at the
\* price of the sold count read earlier, is accepted whenever the sale is
\* open when it executes, whatever purchases other buyers have made in
\* between (the client itself has bought nothing of the sale).
C37_QuoteAsStated ==
    [][\A a \in DialogAmounts :
         (/\ tokenData.token # NoToken
          /\ bought[tokenData.token]["buyer"] = 0
          /\ tokenToSale[tokenData.token].isOpen
          /\ buyHandler(a))
            => BuyAccepted(lastCall')]_vars

\* C37: a purchase submitted through the trade dialog on a sale that is open
\* when it executes is accepted if and only if the payment computed from the
\* sold count read earlier covers the price at the current sold count, which
\* it does whenever the price has not risen in between; otherwise it is
\* rejected for insufficient payment; a rejection changes no state.
C37_QuotedPrice ==
    /\ [](tokenData.token # NoToken =>
            tokenData.sold <= tokenToSale[tokenData.token].sold)
    /\ [][\A a \in DialogAmounts :
            LET sale == tokenToSale[tokenData.token]
                due == getCostPerToken(sale.sold) * (a \div UNIT)
                paid == (getCostPerToken(tokenData.sold) * a) \div UNIT
            IN (sale.isOpen /\ buyHandler(a)) =>
                 /\ BuyAccepted(lastCall') <=> paid >= due
                 /\ getCostPerToken(tokenData.sold)
                       = getCostPerToken(sale.sold) => BuyAccepted(lastCall')
                 /\ ~BuyAccepted(lastCall') =>
                       /\ lastCall'.reason
                             = "Factory: Insufficient ETH received"
                       /\ UNCHANGED <<contractState, history>>]_vars

\* the purchase submitted through the trade dialog was accepted at the price
\* of a sold count that purchases of other buyers have since raised
C37_Witness ==
    /\ BuyAccepted(lastCall)
    /\ lastCall.caller = "buyer"
    /\ lastCall.value = totalCost(lastCall.amount)
    /\ tokenData.token = lastCall.token
    /\ tokenData.sold + lastCall.amount < tokenToSale[lastCall.token].sold
====
